---- MODULE Spec2Model ----
(***************************************************************************)
(* Model of scripts/ci/patch-app-identity.mjs: the identity patcher that   *)
(* validates the environment and then rewrites four files of the           *)
(* repository (package.json, electron-builder.ts, the default-browser      *)
(* controller and the main header).                                        *)
(*                                                                         *)
(* A text is a sequence of tokens.  A token is one character (a quote, a   *)
(* blank, a newline, "$", a letter of a slug) or a run of characters that  *)
(* the patterns of the program can only match as a whole ("appId:",        *)
(* "linux:", "Flow Browser").  No text written to a file spells a token    *)
(* with other tokens (the single hyphen occurs in slugs only, which hold   *)
(* no run of three in the files), so equality of token sequences is        *)
(* equality of the texts.                                                  *)
(***************************************************************************)
EXTENDS Integers, Sequences, FiniteSets, TLC

(* ------------------------------ bounds -------------------------------- *)

\* Longest APP_SLUG value drawn for the validation runs.
MaxSlugLen == 2
\* Number of runs of main() against the same working directory.
MaxRuns == 2
\* Largest number of separate banners in the generated src/main/index.ts.
MaxBanners == 2

(* ------------------------------ alphabet ------------------------------ *)

NL == "\n"
SP == " "
DQ == "\""
SQ == "'"
\* The backtick (a character TLA+ strings cannot hold).
BQ == "BACKTICK"

\* \s of the regular expressions, and what String.prototype.trim strips.
Ws == {SP, NL}
\* The character class of the three quote characters.
Quotes == {DQ, SQ, BQ}
\* [a-z0-9]
SlugHead == {"a", "c", "1"}
\* [a-z0-9-]
SlugTail == SlugHead \cup {"-"}
\* Tokens whose last character is a word character (\w), for \b.
WordEnd == {"a", "c", "1", "2", "3", "4", "A", "_", "x", "p", "d", "e", "dar",
            "flow", "Flow", "Acme", "Flow Browser", "AppImage", ".desktop",
            "-browser", "exec", "true", "log", "main"}

Unset == [set |-> FALSE, val |-> <<>>]
Str(s) == [set |-> TRUE, val |-> s]

(* --------------------------- string helpers --------------------------- *)

Sub(s, i, j) == IF i > j THEN <<>> ELSE SubSeq(s, i, j)

Min(S) == CHOOSE x \in S : \A y \in S : x <= y
Max(S) == CHOOSE x \in S : \A y \in S : x >= y

\* String.prototype.trim
Trim(s) ==
  LET keep == {i \in 1..Len(s) : s[i] \notin Ws}
  IN  IF keep = {} THEN <<>> ELSE SubSeq(s, Min(keep), Max(keep))

\* First position >= i that is not whitespace (Len(s)+1 when there is none):
\* where a greedy \s* started at i stops.
SkipWs(s, i) == Min({j \in i..(Len(s) + 1) : j = Len(s) + 1 \/ s[j] \notin Ws})

\* First position >= i holding a quote character (Len(s)+1 when none):
\* where a greedy run of non-quote characters started at i stops.
NextQuote(s, i) == Min({j \in i..(Len(s) + 1) : j = Len(s) + 1 \/ s[j] \in Quotes})

\* \b before position i, position i holding a token that starts with a
\* word character.
Boundary(s, i) == i = 1 \/ s[i - 1] \notin WordEnd

\* (quote)(non-quotes+)(\2) anchored at j: the position of the closing quote,
\* 0 when there is no match.
QuotedAt(s, j) ==
  IF j > Len(s) \/ s[j] \notin Quotes THEN 0
  ELSE LET k == NextQuote(s, j + 1)
       IN  IF k <= Len(s) /\ k > j + 1 /\ s[k] = s[j] THEN k ELSE 0

NoMatch == [found |-> FALSE, from |-> 0, quote |-> 0, to |-> 0]

\* GetSubstitution of String.prototype.replace / replaceAll with a string
\* replacement: $$, $&, $backtick, $' and $n (1 <= n <= number of groups) are
\* expanded, every other character is copied.
RECURSIVE Expand(_, _, _, _, _, _)
Expand(t, i, groups, matched, before, after) ==
  IF i > Len(t) THEN <<>>
  ELSE IF t[i] = "$" /\ i < Len(t)
       THEN LET c == t[i + 1]
                rest == Expand(t, i + 2, groups, matched, before, after)
            IN  CASE c = "$" -> <<"$">> \o rest
                  [] c = "&" -> matched \o rest
                  [] c = BQ -> before \o rest
                  [] c = SQ -> after \o rest
                  [] c = "1" /\ Len(groups) >= 1 -> groups[1] \o rest
                  [] c = "2" /\ Len(groups) >= 2 -> groups[2] \o rest
                  [] c = "3" /\ Len(groups) >= 3 -> groups[3] \o rest
                  [] c = "4" /\ Len(groups) >= 4 -> groups[4] \o rest
                  [] OTHER -> <<"$">> \o Expand(t, i + 1, groups, matched, before, after)
       ELSE <<t[i]>> \o Expand(t, i + 1, groups, matched, before, after)

\* content.replace(re, template) for a match of re from position from to
\* position to with the given capture groups.
ReplaceTemplate(s, from, to, groups, template) ==
  Sub(s, 1, from - 1)
    \o Expand(template, 1, groups, Sub(s, from, to),
              Sub(s, 1, from - 1), Sub(s, to + 1, Len(s)))
    \o Sub(s, to + 1, Len(s))

(* ------------------------ the regular expressions --------------------- *)

\* The four groups of a match of (prefix)(quote)(non-quotes+)(\2).
Groups(s, m) ==
  << Sub(s, m.from, m.quote - 1), <<s[m.quote]>>,
     Sub(s, m.quote + 1, m.to - 1), <<s[m.to]>> >>

\* First match of /(\bKEY\s*)(quote)(non-quotes+)(\2)/, KEY being "appId:" or
\* "productName:".
FieldMatch(s, key) ==
  LET cands == {i \in 1..Len(s) :
                  /\ s[i] = key
                  /\ Boundary(s, i)
                  /\ QuotedAt(s, SkipWs(s, i + 1)) # 0}
  IN  IF cands = {} THEN NoMatch
      ELSE LET i == Min(cands)
               j == SkipWs(s, i + 1)
           IN  [found |-> TRUE, from |-> i, quote |-> j, to |-> QuotedAt(s, j)]

\* BLOCK\s*\{[\s\S]*?\bexecutableName:\s* anchored at i: the position of the
\* quote the lazy scan stops before (0 when none).  With full, the quote
\* must open (quote)(non-quotes+)(\2); without, any quote character will do.
BlockExecAt(s, i, full) ==
  LET b == SkipWs(s, i + 1)
  IN  IF b > Len(s) \/ s[b] # "{" THEN 0
      ELSE LET cands == {m \in (b + 1)..Len(s) :
                           /\ s[m] = "executableName:"
                           /\ Boundary(s, m)
                           /\ LET j == SkipWs(s, m + 1)
                              IN  IF full THEN QuotedAt(s, j) # 0
                                  ELSE j <= Len(s) /\ s[j] \in Quotes}
           IN  IF cands = {} THEN 0 ELSE SkipWs(s, Min(cands) + 1)

\* Positions where the block keyword of the pattern can start: "win:" is
\* written \bwin:, "linux:" has no \b.
BlockStarts(s, block) ==
  {i \in 1..Len(s) : s[i] = block /\ (block = "win:" => Boundary(s, i))}

\* /BLOCK\s*\{[\s\S]*?\bexecutableName:\s*["'BQ]/m.test(s)
BlockExecTest(s, block) ==
  \E i \in BlockStarts(s, block) : BlockExecAt(s, i, FALSE) # 0

\* First match of
\* /(BLOCK\s*\{[\s\S]*?\bexecutableName:\s*)(quote)(non-quotes+)(\2)/m
BlockExecMatch(s, block) ==
  LET cands == {i \in BlockStarts(s, block) : BlockExecAt(s, i, TRUE) # 0}
  IN  IF cands = {} THEN NoMatch
      ELSE LET i == Min(cands)
               j == BlockExecAt(s, i, TRUE)
           IN  [found |-> TRUE, from |-> i, quote |-> j, to |-> QuotedAt(s, j)]

\* s.replace(re, (_m, p1, quote, _old, p4) => p1 + quote + executableName + p4)
\* for the first match m of re: a function replacement, copied verbatim.
ReplaceExec(s, m, executableName) ==
  IF ~m.found THEN s
  ELSE Sub(s, 1, m.quote) \o executableName \o Sub(s, m.to, Len(s))

\* First match of /(linux:\s*\{\s*\n)/m: the greedy \s* gives back up to the
\* last newline of the whitespace run after the brace.
InsertMatch(s) ==
  LET nls(i) == LET b == SkipWs(s, i + 1)
                IN  IF b > Len(s) \/ s[b] # "{" THEN {}
                    ELSE {n \in (b + 1)..(SkipWs(s, b + 1) - 1) : s[n] = NL}
      cands == {i \in 1..Len(s) : s[i] = "linux:" /\ nls(i) # {}}
  IN  IF cands = {} THEN NoMatch
      ELSE [found |-> TRUE, from |-> Min(cands), quote |-> 0,
            to |-> Max(nls(Min(cands)))]

Xdg == "xdg-settings set default-web-browser"

\* First match of /xdg-settings set default-web-browser\s+[^\s"']+/
XdgMatch(s) ==
  LET stop == Ws \cup {DQ, SQ}
      arg(i) == SkipWs(s, i + 1)
      cands == {i \in 1..Len(s) :
                  /\ s[i] = Xdg
                  /\ i < Len(s) /\ s[i + 1] \in Ws
                  /\ arg(i) <= Len(s) /\ s[arg(i)] \notin stop}
  IN  IF cands = {} THEN NoMatch
      ELSE LET i == Min(cands)
               e == Min({j \in arg(i)..(Len(s) + 1) :
                           j = Len(s) + 1 \/ s[j] \in stop})
           IN  [found |-> TRUE, from |-> i, quote |-> 0, to |-> e - 1]

Banner == <<"---", SP, "Flow Browser", SP, "---">>

\* Position of the first occurrence of pat in s at or after from (0: none).
IndexOf(s, pat, from) ==
  LET hits == {i \in from..(Len(s) - Len(pat) + 1) :
                 \A k \in 1..Len(pat) : s[i + k - 1] = pat[k]}
  IN  IF hits = {} THEN 0 ELSE Min(hits)

\* s.replaceAll(pat, replacement) with a string pattern: the occurrences are
\* found left to right without overlap, and the replacement is expanded
\* (GetSubstitution, no capture groups) at each of them.
RECURSIVE ReplaceAll(_, _, _, _)
ReplaceAll(s, pat, replacement, pos) ==
  LET i == IndexOf(s, pat, pos)
  IN  IF i = 0 THEN Sub(s, pos, Len(s))
      ELSE Sub(s, pos, i - 1)
             \o Expand(replacement, 1, <<>>, pat, Sub(s, 1, i - 1),
                       Sub(s, i + Len(pat), Len(s)))
             \o ReplaceAll(s, pat, replacement, i + Len(pat))

(* --------------------------- pure functions --------------------------- *)

\* requireEnv: !v holds of undefined and of the empty string.
requireEnv(v) == [ok |-> v.set /\ v.val # <<>>, val |-> v.val]

\* sanitizeSlug with the pattern's first character class left out:
\* /^[a-z0-9-]*$/.
sanitizeSlugNoHead(input) ==
  LET slug == Trim(input)
  IN  [ok |-> \A i \in 1..Len(slug) : slug[i] \in SlugTail, val |-> slug]

\* sanitizeSlug: trim, then test /^[a-z0-9][a-z0-9-]*$/.
sanitizeSlug(input) ==
  LET slug == Trim(input)
  IN  [ok |-> /\ Len(slug) >= 1
              /\ slug[1] \in SlugHead
              /\ \A i \in 2..Len(slug) : slug[i] \in SlugTail,
       val |-> slug]

\* replaceOrThrow(content, re, replacement, what), m being the first match
\* of re in content and groups its capture groups.
replaceOrThrow(content, m, groups, replacement) ==
  IF ~m.found THEN [ok |-> FALSE, text |-> content]
  ELSE [ok |-> TRUE,
        text |-> ReplaceTemplate(content, m.from, m.to, groups, replacement)]

\* The line inserted after the anchor: $1 + 4 blanks + executableName: "<name>",\n
InsertTemplate(executableName) ==
  <<"$", "1", SP, SP, SP, SP, "executableName:", SP, DQ>>
    \o executableName \o <<DQ, ",", NL>>

ensureLinuxExecutableName(builderTs, executableName) ==
  IF BlockExecTest(builderTs, "linux:")
  THEN [ok |-> TRUE,
        text |-> ReplaceExec(builderTs, BlockExecMatch(builderTs, "linux:"),
                             executableName)]
  ELSE LET m == InsertMatch(builderTs)
       IN  replaceOrThrow(builderTs, m, <<Sub(builderTs, m.from, m.to)>>,
                          InsertTemplate(executableName))

\* The replacement string of the appId and productName substitutions:
\* $1 + '"' + value + '"' + $4.
FieldTemplate(value) == <<"$", "1", DQ>> \o value \o <<DQ, "$", "4">>

\* replaceOrThrow(content, /(\bKEY\s*)(quote)(non-quotes+)(\2)/, template)
patchField(content, key, value) ==
  LET m == FieldMatch(content, key)
  IN  replaceOrThrow(content, m, IF m.found THEN Groups(content, m) ELSE <<>>,
                     FieldTemplate(value))

\* The Windows step of patchElectronBuilderTs (best effort, never throws).
patchWinExecutableName(content, executableName) ==
  IF BlockExecTest(content, "win:")
  THEN ReplaceExec(content, BlockExecMatch(content, "win:"), executableName)
  ELSE content

\* The contents patchElectronBuilderTs computes in memory, in order: the
\* text read, then the text after each substitution that did not throw
\* (appId, productName, win.executableName, linux.executableName).
BuilderSteps(content, id) ==
  LET a == patchField(content, "appId:", id.appId)
      p == patchField(a.text, "productName:", id.productName)
      w == patchWinExecutableName(p.text, id.executableName)
      l == ensureLinuxExecutableName(w, id.executableName)
  IN  IF ~a.ok THEN <<content>>
      ELSE IF ~p.ok THEN <<content, a.text>>
      ELSE IF ~l.ok THEN <<content, a.text, p.text, w>>
      ELSE <<content, a.text, p.text, w, l.text>>

\* The text patchDefaultBrowserController computes.
ControllerPatched(content, desktopFile) ==
  replaceOrThrow(content, XdgMatch(content), <<>>, <<Xdg, SP>> \o desktopFile)

\* The text patchMainHeader computes.
HeaderPatched(content, productName) ==
  IF IndexOf(content, Banner, 1) # 0
  THEN ReplaceAll(content, Banner, <<"---", SP>> \o productName \o <<SP, "---">>, 1)
  ELSE content

\* pkg.KEY = value on the parsed manifest: an existing key keeps its place,
\* a new key goes last.
SetField(fields, key, value) ==
  IF \E i \in 1..Len(fields) : fields[i][1] = key
  THEN [i \in 1..Len(fields) |->
          IF fields[i][1] = key THEN <<key, value>> ELSE fields[i]]
  ELSE Append(fields, <<key, value>>)

\* JSON.stringify(pkg, null, 2) + "\n" of the manifest with name and
\* productName set: the canonical layout of the same members.
PackagePatched(data, id) ==
  [wellformed |-> TRUE, canonical |-> TRUE,
   fields |-> SetField(SetField(data.fields, "name", id.packageName),
                       "productName", id.productName)]

\* ResolveOptional written with || in place of ??: an empty value falls back.
ResolveOptionalOr(v, fallback) ==
  Trim(IF v.set /\ v.val # <<>> THEN v.val ELSE fallback)

\* String(process.env.X ?? fallback).trim()
ResolveOptional(v, fallback) == Trim(IF v.set THEN v.val ELSE fallback)

(* ------------------------------- inputs ------------------------------- *)

PackageJson == "package.json"
BuilderTs == "electron-builder.ts"
ControllerTs == "src/main/controllers/default-browser-controller/index.ts"
MainTs == "src/main/index.ts"

\* The order in which main() calls the handlers.
HandlerOrder == <<PackageJson, BuilderTs, ControllerTs, MainTs>>
Files == {HandlerOrder[i] : i \in 1..Len(HandlerOrder)}

File(data) == [exists |-> TRUE, data |-> data]
Absent == [exists |-> FALSE, data |-> <<>>]

\* package.json as the template ships it, one written by hand without a
\* productName, and one that is no JSON.
PkgTemplate ==
  [wellformed |-> TRUE, canonical |-> TRUE,
   fields |-> << <<"name", <<"flow">> >>, <<"productName", <<"Flow">> >>,
                 <<"version", <<"1">> >> >>]
PkgHandWritten ==
  [wellformed |-> TRUE, canonical |-> FALSE,
   fields |-> << <<"version", <<"1">> >>, <<"name", <<"flow">> >> >>]
PkgBroken == [wellformed |-> FALSE, canonical |-> FALSE, fields |-> <<>>]
PackageFiles == {File(PkgTemplate), File(PkgHandWritten), File(PkgBroken)}

\* electron-builder.ts: the appId and productName assignments quoted with q,
\* followed by platform blocks.
BuilderFields(q) ==
  <<"appId:", SP, q, "dev.sun.", "flow", q, ",", NL,
    "productName:", SP, q, "Flow", q, ",", NL>>
BlockWithExec(name, q) ==
  <<name, SP, "{", NL, SP, SP, "executableName:", SP, q, "flow", q, ",", NL,
    SP, SP, "target:", SP, DQ, "AppImage", DQ, NL, "}", ",", NL>>
BlockPlain(name) ==
  <<name, SP, "{", NL, SP, SP, "target:", SP, DQ, "AppImage", DQ, NL, "}", ",", NL>>
BlockOneLine(name) ==
  <<name, SP, "{", SP, "target:", SP, DQ, "AppImage", DQ, SP, "}", ",", NL>>
BlockEmptyExec(name) ==
  <<name, SP, "{", NL, SP, SP, "executableName:", SP, DQ, DQ, ",", NL, "}", ",", NL>>
BuilderLayouts ==
  { BlockWithExec("win:", DQ) \o BlockPlain("linux:"),
    BlockWithExec("win:", DQ) \o BlockWithExec("linux:", SQ),
    BlockPlain("linux:") \o BlockWithExec("mac:", DQ),
    BlockPlain("win:") \o BlockWithExec("linux:", BQ),
    BlockWithExec("win:", DQ),
    BlockOneLine("linux:"),
    BlockPlain("linux:"),
    <<"dar">> \o BlockWithExec("win:", DQ) \o BlockPlain("linux:"),
    BlockEmptyExec("linux:") }
BuilderFiles ==
  {File(BuilderFields(q) \o l) : q \in Quotes, l \in BuilderLayouts}
    \cup {File(<<"appId:", SP, DQ, "dev.sun.", "flow", DQ, ",", NL>>
                 \o BlockPlain("linux:")),
          File(BlockPlain("linux:"))}
BuilderTemplate ==
  File(BuilderFields(DQ) \o BlockWithExec("win:", DQ) \o BlockPlain("linux:"))

\* The default-browser controller: with the xdg-settings command, without.
ControllerTemplate ==
  File(<<"exec", "(", DQ, Xdg, SP, "flow", ".desktop", DQ, ")", NL>>)
ControllerFiles ==
  {ControllerTemplate, File(<<"exec", "(", DQ, "true", DQ, ")", NL>>), Absent}

\* src/main/index.ts with n banner lines.
RECURSIVE BannerLines(_)
BannerLines(n) ==
  IF n = 0 THEN <<"main", "(", ")", NL>>
  ELSE <<"log", "(", DQ>> \o Banner \o <<DQ, ")", NL>> \o BannerLines(n - 1)
\* Two banners sharing their middle dashes.
BannerOverlap ==
  <<"log", "(", DQ, "---", SP, "Flow Browser", SP, "---", SP, "Flow Browser",
    SP, "---", DQ, ")", NL>>
HeaderFiles ==
  {File(BannerLines(n)) : n \in 0..MaxBanners} \cup {File(BannerOverlap), Absent}

TemplateFs ==
  [f \in Files |->
     CASE f = PackageJson -> File(PkgTemplate)
       [] f = BuilderTs -> BuilderTemplate
       [] f = ControllerTs -> ControllerTemplate
       [] f = MainTs -> File(BannerLines(1))]

\* Every working directory the runs start from.
FileSystems ==
  {[f \in Files |->
      CASE f = PackageJson -> p
        [] f = BuilderTs -> b
        [] f = ControllerTs -> c
        [] f = MainTs -> h] :
     p \in PackageFiles, b \in BuilderFiles, c \in ControllerFiles,
     h \in HeaderFiles}

\* Characters of the APP_SLUG values drawn: a lowercase letter, a digit, the
\* hyphen, an uppercase letter, the underscore and the blank.
SlugAlphabet == {"a", "1", "-", "A", "_", SP}
Strings(alphabet, n) == UNION {[1..k -> alphabet] : k \in 0..n}

\* Environments for the validation runs (against the template files).
ValidationEnvs ==
  [APP_SLUG : {Unset} \cup {Str(s) : s \in Strings(SlugAlphabet, MaxSlugLen)},
   APP_PRODUCT_NAME : {Unset, Str(<<>>), Str(<<SP>>), Str(<<"Acme">>),
                       Str(<<SP, "Acme", SP>>)},
   APP_ID : {Unset, Str(<<>>), Str(<<"x">>), Str(<<SP, "x">>)},
   APP_PACKAGE_NAME : {Unset, Str(<<"p", SP>>)},
   DESKTOP_FILE : {Unset, Str(<<"d">>)}]

\* Environments for the patching runs (against every working directory).
PatchEnvs ==
  [APP_SLUG : {Str(<<"a", "c">>)},
   APP_PRODUCT_NAME : {Str(<<"Acme">>), Str(<<"Acme", "$", "$">>)},
   APP_ID : {Unset},
   APP_PACKAGE_NAME : {Unset},
   DESKTOP_FILE : {Unset, Str(<<"d", SP, "e">>)}]

(* ---------------------------- state machine --------------------------- *)

VARIABLES
  env,          \* process.env, read only
  fs,           \* the four target files in the working directory
  pc,           \* where main() is: validate, a handler's file, summary, done, failed
  id,           \* the resolved identity configuration (main's locals)
  results,      \* main's results array
  stdout,       \* the lines printed by console.log
  err,          \* the kind of the error thrown, "none" while there is none
  run,          \* the number of this run of main()
  calls,        \* history: the handlers invoked in this run, in order
  io,           \* history: the file reads and writes of this run, in order
  trace,        \* history: the contents patchElectronBuilderTs held in memory
  pre,          \* history: the files when this run started
  prevPc,       \* history: how the previous run ended ("none" for the first)
  prevResults   \* history: the results array of the previous run

vars == <<env, fs, pc, id, results, stdout, err, run, calls, io, trace, pre,
          prevPc, prevResults>>

NoId == [appId |-> <<>>, packageName |-> <<>>, productName |-> <<>>,
         desktopFile |-> <<>>, executableName |-> <<>>]

Init ==
  /\ \/ env \in ValidationEnvs /\ fs = TemplateFs
     \/ env \in PatchEnvs /\ fs \in FileSystems
  /\ pc = "validate"
  /\ id = NoId
  /\ results = <<>>
  /\ stdout = <<>>
  /\ err = "none"
  /\ run = 1
  /\ calls = <<>>
  /\ io = <<>>
  /\ trace = <<>>
  /\ pre = fs
  /\ prevPc = "none"
  /\ prevResults = <<>>

\* Throw with a rollback of the files to their state at the start of the run.
ThrowRollback(kind) ==
  /\ pc' = "failed"
  /\ err' = kind
  /\ fs' = pre
  /\ UNCHANGED <<results, stdout>>

\* A throw that nothing catches: main() ends, the process exits non-zero.
Throw(kind) ==
  /\ pc' = "failed"
  /\ err' = kind
  /\ UNCHANGED <<fs, results, stdout>>

\* What follows handler number k of HandlerOrder.
After(k) == IF k < Len(HandlerOrder) THEN HandlerOrder[k + 1] ELSE "summary"

\* ConfigThrows without the trim of the product name (line 115).
ConfigThrowsNoTrim(e) ==
  \/ ~requireEnv(e.APP_SLUG).ok
  \/ ~sanitizeSlug(e.APP_SLUG.val).ok
  \/ ~requireEnv(e.APP_PRODUCT_NAME).ok

\* main(), lines 114-116: whether validation throws on environment e.
ConfigThrows(e) ==
  \/ ~requireEnv(e.APP_SLUG).ok
  \/ ~sanitizeSlug(e.APP_SLUG.val).ok
  \/ ~requireEnv(e.APP_PRODUCT_NAME).ok
  \/ Trim(e.APP_PRODUCT_NAME.val) = <<>>

\* main(), lines 114-120: the identity configuration resolved from e.
Resolve(e) ==
  LET appSlug == sanitizeSlug(e.APP_SLUG.val).val
  IN  [appId |-> ResolveOptional(e.APP_ID, <<"dev.sun.">> \o appSlug),
       packageName |-> ResolveOptional(e.APP_PACKAGE_NAME,
                                       appSlug \o <<"-browser">>),
       productName |-> Trim(e.APP_PRODUCT_NAME.val),
       desktopFile |-> ResolveOptional(e.DESKTOP_FILE, appSlug \o <<".desktop">>),
       executableName |-> appSlug]

\* main(), lines 112-120: the validator.
Validate ==
  /\ pc = "validate"
  /\ IF ConfigThrows(env)
     THEN /\ Throw("config")
          /\ id' = id
     ELSE /\ id' = Resolve(env)
          /\ pc' = HandlerOrder[1]
          /\ UNCHANGED <<fs, results, stdout, err>>
  /\ UNCHANGED <<env, run, calls, io, trace, pre, prevPc, prevResults>>

Read(f) == <<"read", f>>
Write(f) == <<"write", f>>

\* writeIfChanged(absPath, next) called by handler number k, the handler
\* having read the file once itself: read again, compare, write on a
\* difference, and hand the result to main().
writeIfChanged(k, absPath, next) ==
  LET prev == fs[absPath].data
  IN  /\ fs' = IF prev = next THEN fs ELSE [fs EXCEPT ![absPath].data = next]
      /\ io' = io \o <<Read(absPath), Read(absPath)>>
                  \o (IF prev = next THEN <<>> ELSE <<Write(absPath)>>)
      /\ results' = Append(results, [file |-> absPath, changed |-> prev # next])
      /\ pc' = After(k)
      /\ UNCHANGED <<stdout, err>>

\* A handler that throws after it read its file (or failed to read it).
HandlerThrow(absPath, kind) ==
  /\ Throw(kind)
  /\ io' = Append(io, Read(absPath))

patchPackageJson ==
  /\ pc = PackageJson
  /\ calls' = Append(calls, PackageJson)
  /\ IF ~fs[PackageJson].exists THEN HandlerThrow(PackageJson, "filesystem")
     ELSE IF ~fs[PackageJson].data.wellformed
          THEN HandlerThrow(PackageJson, "syntax")
          ELSE writeIfChanged(1, PackageJson,
                              PackagePatched(fs[PackageJson].data, id))
  /\ UNCHANGED <<env, id, run, trace, pre, prevPc, prevResults>>

\* patchElectronBuilderTs writing the file after each substitution instead
\* of once at the end.
patchElectronBuilderTsEager ==
  /\ pc = BuilderTs
  /\ calls' = Append(calls, BuilderTs)
  /\ fs[BuilderTs].exists
  /\ LET steps == BuilderSteps(fs[BuilderTs].data, id)
     IN  /\ trace' = steps
         /\ fs' = [fs EXCEPT ![BuilderTs].data = steps[Len(steps)]]
         /\ io' = io \o <<Read(BuilderTs), Write(BuilderTs)>>
         /\ IF Len(steps) < 5
            THEN pc' = "failed" /\ err' = "pattern" /\ results' = results
            ELSE /\ pc' = After(2)
                 /\ err' = err
                 /\ results' = Append(results, [file |-> BuilderTs,
                                                changed |-> steps[5] # steps[1]])
         /\ stdout' = stdout
  /\ UNCHANGED <<env, id, run, pre, prevPc, prevResults>>

patchElectronBuilderTs ==
  /\ pc = BuilderTs
  /\ calls' = Append(calls, BuilderTs)
  /\ IF ~fs[BuilderTs].exists
     THEN /\ HandlerThrow(BuilderTs, "filesystem")
          /\ trace' = trace
     ELSE LET steps == BuilderSteps(fs[BuilderTs].data, id)
          IN  /\ trace' = steps
              /\ IF Len(steps) < 5 THEN HandlerThrow(BuilderTs, "pattern")
                 ELSE writeIfChanged(2, BuilderTs, steps[5])
  /\ UNCHANGED <<env, id, run, pre, prevPc, prevResults>>

patchDefaultBrowserController ==
  /\ pc = ControllerTs
  /\ calls' = Append(calls, ControllerTs)
  /\ IF ~fs[ControllerTs].exists THEN HandlerThrow(ControllerTs, "filesystem")
     ELSE LET r == ControllerPatched(fs[ControllerTs].data, id.desktopFile)
          IN  IF ~r.ok THEN HandlerThrow(ControllerTs, "pattern")
              ELSE writeIfChanged(3, ControllerTs, r.text)
  /\ UNCHANGED <<env, id, run, trace, pre, prevPc, prevResults>>

patchMainHeader ==
  /\ pc = MainTs
  /\ calls' = Append(calls, MainTs)
  /\ IF ~fs[MainTs].exists THEN HandlerThrow(MainTs, "filesystem")
     ELSE writeIfChanged(4, MainTs, HeaderPatched(fs[MainTs].data, id.productName))
  /\ UNCHANGED <<env, id, run, trace, pre, prevPc, prevResults>>

\* main(), lines 128-133: the summary.
Summary ==
  /\ pc = "summary"
  /\ stdout' = <<"[patch-app-identity] done">>
                 \o [i \in 1..Len(results) |->
                       <<results[i].file,
                         IF results[i].changed THEN "patched" ELSE "unchanged">>]
                 \o << <<"changed",
                         Cardinality({i \in 1..Len(results) : results[i].changed}),
                         Len(results)>> >>
  /\ pc' = "done"
  /\ UNCHANGED <<env, fs, id, results, err, run, calls, io, trace, pre, prevPc,
                 prevResults>>

\* The operator runs the script again, same environment, same directory.
Rerun ==
  /\ pc \in {"done", "failed"}
  /\ run < MaxRuns
  /\ run' = run + 1
  /\ pc' = "validate"
  /\ id' = NoId
  /\ results' = <<>>
  /\ stdout' = <<>>
  /\ err' = "none"
  /\ calls' = <<>>
  /\ io' = <<>>
  /\ trace' = <<>>
  /\ pre' = fs
  /\ prevPc' = pc
  /\ prevResults' = results
  /\ UNCHANGED <<env, fs>>

Next ==
  \/ Validate
  \/ patchPackageJson
  \/ patchElectronBuilderTs
  \/ patchDefaultBrowserController
  \/ patchMainHeader
  \/ Summary
  \/ Rerun

Spec == Init /\ [][Next]_vars

TypeOK ==
  /\ pc \in {"validate", "summary", "done", "failed"} \cup Files
  /\ err \in {"none", "config", "pattern", "syntax", "filesystem"}
  /\ run \in 1..MaxRuns

(* ------------------------------- claims ------------------------------- *)

\* The range of a sequence.
Range(q) == {q[i] : i \in 1..Len(q)}

\* /^[a-z0-9][a-z0-9-]*$/ as the specification writes it.
MatchesSlugPattern(s) ==
  /\ Len(s) >= 1
  /\ s[1] \in {"a", "c", "1"}
  /\ \A i \in 2..Len(s) : s[i] \in {"a", "c", "1", "-"}

\* The run ended in a configuration error and touched no file.
RejectedUntouched ==
  /\ pc = "failed"
  /\ err = "config"
  /\ io = <<>>
  /\ calls = <<>>
  /\ fs = pre

\* C1 (as claimed): a run that follows a successful run in the same
\* environment writes nothing and reports changed=false for all four
\* handlers; a run that follows an aborted run writes none of the files the
\* aborted run had patched and reports changed=false for them.
C1_RerunWritesNothing ==
  (run >= 2 /\ pc \in {"done", "failed"}) =>
    /\ prevPc = "done" =>
         /\ pc = "done"
         /\ Len(results) = 4
         /\ \A i \in 1..Len(results) : ~results[i].changed
         /\ \A f \in Files : Write(f) \notin Range(io)
    /\ prevPc = "failed" =>
         \A i \in 1..Len(prevResults) :
           /\ Write(prevResults[i].file) \notin Range(io)
           /\ i <= Len(results) => ~results[i].changed

\* The text s with the value of the first KEY assignment replaced by value
\* and both of its delimiters kept.
ValueReplaced(s, key, value) ==
  LET i == Min({n \in 1..Len(s) : s[n] = key})
      open == NextQuote(s, i + 1)
      close == NextQuote(s, open + 1)
  IN  Sub(s, 1, open) \o value \o Sub(s, close, Len(s))

\* C2 (as claimed): the appId substitution and the productName substitution
\* of patchElectronBuilderTs replace the quoted value and keep the quote
\* character on both sides, adding and removing no quote.
C2_QuoteStylePreserved ==
  /\ Len(trace) >= 2 => trace[2] = ValueReplaced(trace[1], "appId:", id.appId)
  /\ Len(trace) >= 3 =>
       trace[3] = ValueReplaced(trace[2], "productName:", id.productName)

\* C3 (as claimed): every APP_SLUG value that does not itself match the
\* pattern is rejected with a configuration error and nothing is patched.
C3_UntrimmedSlugRejected ==
  (pc # "validate" /\ env.APP_SLUG.set /\ ~MatchesSlugPattern(env.APP_SLUG.val))
    => RejectedUntouched

\* C3 (amended): every APP_SLUG value that, with its leading and trailing
\* whitespace removed, does not match the pattern is rejected with a
\* configuration error and nothing is patched.
C3_TrimmedSlugRejected ==
  (pc # "validate" /\ env.APP_SLUG.set
     /\ ~MatchesSlugPattern(Trim(env.APP_SLUG.val)))
    => RejectedUntouched

\* A run rejected for its slug alone: the slug is set, not empty and
\* malformed, and the product name is fine.
C3_Witness ==
  /\ RejectedUntouched
  /\ env.APP_SLUG.set /\ env.APP_SLUG.val # <<>>
  /\ ~MatchesSlugPattern(Trim(env.APP_SLUG.val))
  /\ env.APP_PRODUCT_NAME.set /\ Trim(env.APP_PRODUCT_NAME.val) # <<>>

\* The three derived defaults for slug s.
DefaultsFor(s) ==
  [APP_ID |-> <<"dev.sun.">> \o s,
   APP_PACKAGE_NAME |-> s \o <<"-browser">>,
   DESKTOP_FILE |-> s \o <<".desktop">>]

\* The resolved value of each optional variable.
ResolvedOf(i) ==
  [APP_ID |-> i.appId, APP_PACKAGE_NAME |-> i.packageName,
   DESKTOP_FILE |-> i.desktopFile]

Optionals == {"APP_ID", "APP_PACKAGE_NAME", "DESKTOP_FILE"}

\* C4 (as claimed): a matching slug with a non-empty product name is
\* accepted; the executable name is the slug; an unset optional variable
\* resolves to its default and a set one to the value it was set to.
C4_SetValueUsedVerbatim ==
  (pc # "validate" /\ env.APP_SLUG.set /\ MatchesSlugPattern(env.APP_SLUG.val)
     /\ env.APP_PRODUCT_NAME.set /\ env.APP_PRODUCT_NAME.val # <<>>)
    => /\ err # "config"
       /\ id.executableName = env.APP_SLUG.val
       /\ \A v \in Optionals :
            ResolvedOf(id)[v] = IF env[v].set THEN env[v].val
                                ELSE DefaultsFor(env.APP_SLUG.val)[v]

\* C4 (amended): a matching slug with a product name that is not empty after
\* trimming is accepted; the executable name is the slug; an unset optional
\* variable resolves to its default and a set one to the value it was set
\* to with leading and trailing whitespace removed (never to the default).
C4_DerivedDefaults ==
  (pc # "validate" /\ env.APP_SLUG.set /\ MatchesSlugPattern(env.APP_SLUG.val)
     /\ env.APP_PRODUCT_NAME.set /\ Trim(env.APP_PRODUCT_NAME.val) # <<>>)
    => /\ err # "config"
       /\ id.executableName = env.APP_SLUG.val
       /\ \A v \in Optionals :
            ResolvedOf(id)[v] = IF env[v].set THEN Trim(env[v].val)
                                ELSE DefaultsFor(env.APP_SLUG.val)[v]

\* An accepted run with one optional variable unset, one set to a value and
\* one set to the empty string.
C4_Witness ==
  /\ pc = PackageJson
  /\ MatchesSlugPattern(env.APP_SLUG.val)
  /\ ~env.DESKTOP_FILE.set /\ id.desktopFile = env.APP_SLUG.val \o <<".desktop">>
  /\ env.APP_PACKAGE_NAME.set /\ id.packageName = <<"p">>
  /\ env.APP_ID.set /\ env.APP_ID.val = <<>> /\ id.appId = <<>>

\* The environment the validator must refuse.
ConfigInvalid ==
  \/ ~env.APP_SLUG.set
  \/ ~env.APP_PRODUCT_NAME.set
  \/ ~MatchesSlugPattern(Trim(env.APP_SLUG.val))
  \/ Trim(env.APP_PRODUCT_NAME.val) = <<>>

\* C5: a run whose APP_SLUG or APP_PRODUCT_NAME is missing, whose slug is
\* malformed or whose product name is empty after trimming ends in the
\* configuration error with no handler invoked, no file read or written and
\* all four files as they were before the run.
C5_ValidationBeforeIO ==
  (pc # "validate" /\ ConfigInvalid) => RejectedUntouched

\* A run refused for its product name alone (blank, slug well-formed).
C5_Witness ==
  /\ RejectedUntouched
  /\ env.APP_SLUG.set /\ MatchesSlugPattern(Trim(env.APP_SLUG.val))
  /\ env.APP_PRODUCT_NAME.set /\ env.APP_PRODUCT_NAME.val # <<>>
  /\ Trim(env.APP_PRODUCT_NAME.val) = <<>>

\* The place of file f in the fixed order.
OrderOf(f) == CHOOSE k \in 1..4 : <<PackageJson, BuilderTs, ControllerTs, MainTs>>[k] = f

\* C6: the handlers are invoked in the order package.json,
\* electron-builder.ts, controller, header, and each file is read and
\* written in that order; when handler k fails, no later handler is invoked,
\* the later files are neither read nor written, every file an earlier
\* handler wrote still differs from its content before the run (no
\* rollback), and nothing is printed.
C6_FixedOrderFailFast ==
  /\ calls = Sub(<<PackageJson, BuilderTs, ControllerTs, MainTs>>, 1, Len(calls))
  /\ \A i \in 1..Len(results) : results[i].file = calls[i]
  /\ \A i \in 1..Len(io), j \in 1..Len(io) :
       i < j => OrderOf(io[i][2]) <= OrderOf(io[j][2])
  /\ (pc = "failed" /\ err # "config") =>
       /\ Len(calls) = Len(results) + 1
       /\ \A f \in Files :
            OrderOf(f) > Len(calls) =>
              /\ Read(f) \notin Range(io)
              /\ Write(f) \notin Range(io)
              /\ fs[f] = pre[f]
       /\ \A i \in 1..Len(results) :
            results[i].changed <=> fs[results[i].file] # pre[results[i].file]
       /\ stdout = <<>>

\* The third handler failed after the first two wrote their files.
C6_Witness ==
  /\ pc = "failed"
  /\ calls = <<PackageJson, BuilderTs, ControllerTs>>
  /\ Len(results) = 2 /\ results[1].changed /\ results[2].changed
  /\ fs[PackageJson] # pre[PackageJson] /\ fs[BuilderTs] # pre[BuilderTs]

\* The first block called name in s (the keyword at the start of the text or
\* after a blank, a newline or a comma): the positions of its braces (0, 0
\* when s has no such block).
BlockOf(s, name) ==
  LET starts == {i \in 1..Len(s) :
                   /\ s[i] = name
                   /\ (i = 1 \/ s[i - 1] \in {SP, NL, ","})
                   /\ SkipWs(s, i + 1) <= Len(s)
                   /\ s[SkipWs(s, i + 1)] = "{"}
  IN  IF starts = {} THEN [open |-> 0, close |-> 0]
      ELSE LET o == SkipWs(s, Min(starts) + 1)
           IN  [open |-> o,
                close |-> Min({k \in o..(Len(s) + 1) :
                                 k = Len(s) + 1 \/ s[k] = "}"})]

\* The executableName fields inside block b of s.
ExecFields(s, b) == {m \in (b.open + 1)..(b.close - 1) : s[m] = "executableName:"}

\* The text between the quotes that follow position m.
QuotedValue(s, m) ==
  LET open == NextQuote(s, m + 1)
  IN  Sub(s, open + 1, NextQuote(s, open + 1) - 1)

\* The line the insertion branch adds.
ExecLine(name) ==
  <<SP, SP, SP, SP, "executableName:", SP, DQ>> \o name \o <<DQ, ",", NL>>

\* C7 (as claimed): called on a configuration with a linux: block,
\* ensureLinuxExecutableName returns a text whose linux block holds exactly
\* one executableName field, with the slug as its value; when the block had
\* none, the field is the first line inside the block.
C7_LinuxExecutableName ==
  (Len(trace) >= 4 /\ BlockOf(trace[4], "linux:").open # 0) =>
    /\ Len(trace) = 5
    /\ LET in == BlockOf(trace[4], "linux:")
           out == BlockOf(trace[5], "linux:")
       IN  /\ Cardinality(ExecFields(trace[5], out)) = 1
           /\ \A m \in ExecFields(trace[5], out) :
                QuotedValue(trace[5], m) = id.executableName
           /\ ExecFields(trace[4], in) = {} =>
                trace[5] = Sub(trace[4], 1, in.open + 1)
                             \o ExecLine(id.executableName)
                             \o Sub(trace[4], in.open + 2, Len(trace[4]))

\* The text of s outside block b (all of s when there is no such block).
Outside(s, b) ==
  IF b.open = 0 THEN <<s, <<>> >>
  ELSE <<Sub(s, 1, b.open), Sub(s, b.close, Len(s))>>

\* Literal replacement of every occurrence of pat in s, left to right.
RECURSIVE LiteralReplaceAll(_, _, _, _)
LiteralReplaceAll(s, pat, by, pos) ==
  LET i == IndexOf(s, pat, pos)
  IN  IF i = 0 THEN Sub(s, pos, Len(s))
      ELSE Sub(s, pos, i - 1) \o by \o LiteralReplaceAll(s, pat, by, i + Len(pat))

\* C8 (as claimed): patchMainHeader replaces every banner by
\* --- <productName> --- with the product name copied literally and the
\* rest of the text unchanged; with no banner in the file it writes nothing
\* and returns changed=false.
C8_BannerReplacedLiterally ==
  (Len(results) = 4) =>
    /\ fs[MainTs].data =
         LiteralReplaceAll(pre[MainTs].data, Banner,
                           <<"---", SP>> \o id.productName \o <<SP, "---">>, 1)
    /\ IndexOf(pre[MainTs].data, Banner, 1) = 0 =>
         /\ ~results[4].changed
         /\ Write(MainTs) \notin Range(io)

\* C9 (as claimed): the Windows step changes nothing outside the win: block
\* and the Linux step changes nothing outside the linux: block; a linux
\* block without the field gets the inserted line.
C9_BlockScoped ==
  /\ Len(trace) >= 4 =>
       Outside(trace[4], BlockOf(trace[4], "win:"))
         = Outside(trace[3], BlockOf(trace[3], "win:"))
  /\ Len(trace) = 5 =>
       /\ Outside(trace[5], BlockOf(trace[5], "linux:"))
            = Outside(trace[4], BlockOf(trace[4], "linux:"))
       /\ ExecFields(trace[4], BlockOf(trace[4], "linux:")) = {} =>
            ExecFields(trace[5], BlockOf(trace[5], "linux:")) # {}

\* C10: a handler that fails with a pattern-not-found error leaves its own
\* file as it was before the run and never writes it, whatever it had
\* substituted in memory before the failing step.
C10_FailedHandlerWritesNothing ==
  (pc = "failed" /\ err = "pattern") =>
    /\ fs[calls[Len(calls)]] = pre[calls[Len(calls)]]
    /\ Write(calls[Len(calls)]) \notin Range(io)

\* patchElectronBuilderTs substituted appId and productName in memory and
\* then failed at the Linux step for want of an anchor.
C10_Witness ==
  /\ pc = "failed" /\ err = "pattern"
  /\ calls[Len(calls)] = BuilderTs
  /\ Len(trace) = 4
  /\ trace[2] # trace[1] /\ trace[3] # trace[2]
  /\ fs[BuilderTs].data = trace[1]

====
